---- MODULE Spec2Model ----
(***************************************************************************)
(* Model of the Telegram -> Instagram Notes bot (src/bot.py).              *)
(*                                                                         *)
(* State: the parsed account list, the per-account cached client and       *)
(* session file, the process-wide waiting_for_2fa marker and the           *)
(* pending_action dict.  One action per Telegram handler; a handler runs   *)
(* to completion (instagrapi calls are blocking), so each action is the    *)
(* whole handler.  Every remote call's outcome is chosen by the            *)
(* environment (an "oracle" record drawn with \E).                         *)
(*                                                                         *)
(* Outbound Telegram replies (reply_text) are assumed to be delivered:     *)
(* the model records them and never lets them raise.                       *)
(***************************************************************************)
EXTENDS Integers, Sequences, FiniteSets, TLC

\* ------------------------------------------------------------- bounds
\* Largest number of configured accounts explored.
MaxAccounts == 2

\* Most segments of an INSTA_ACCOUNTS setting.
MaxSegments == 3

\* Most lines collected for one reply digest.
MaxLines == 9

\* ------------------------------------------------- program constants
ALLOWED_USER_ID == 1
MaxNoteLen == 60
TwoFACodeLen == 6
WindowHours == 24
DigestCap == 8

\* Names the configuration may give to accounts, in configuration order.
AllNames == <<"a", "b", "c", "d">>

\* A sender that is not the authorized operator.
Stranger == ALLOWED_USER_ID + 1
Users == {ALLOWED_USER_ID, Stranger}

\* Python's None for waiting_for_2fa.
None == "None"

VARIABLES
    account_list,     \* list of account names, configuration order
    client,           \* client[name]: accounts[name]['client'] is set
    session_file,     \* session_file[name]: session_<name>.json exists
    waiting_for_2fa,  \* account name awaiting a code, or None
    pending_action,   \* dict user_id -> action (a function on its keys)
    last,             \* observation of the handler run that just ended
    resolved,         \* history: a pending action was popped and no
                      \* deferring command has been accepted since
    lastDeferred,     \* history: action of the latest deferring command
    replaced,         \* history: that command found another action stored
    codeUsed,         \* history: a code went through the 2FA branch and
                      \* no challenge has been raised since
    INSTA_ACCOUNTS_STR, \* the INSTA_ACCOUNTS setting, a string
    parts,            \* segments the parsing loop has still to visit
    accounts,         \* dict name -> username and password
    recent,           \* note_replies: lines collected for one account
    prev,             \* timestamp of the message read before, same thread
    msg,              \* the message the inner loop has just visited
    digest            \* the account's entry (status), once built

\* The locals of the configuration parsing and of the reply digest.
parseVars == <<INSTA_ACCOUNTS_STR, parts, accounts>>
digestVars == <<recent, prev, msg, digest>>

\* The state of the running bot.
botVars == <<client, session_file, waiting_for_2fa, pending_action, last,
             resolved, lastDeferred, replaced, codeUsed>>

vars == <<account_list, client, session_file, waiting_for_2fa,
          pending_action, last, resolved, lastDeferred, replaced, codeUsed,
          INSTA_ACCOUNTS_STR, parts, accounts, recent, prev, msg, digest>>

Accounts == {account_list[i] : i \in DOMAIN account_list}

\* ------------------------------------------------------------ strings
\* A free-text message is a sequence of characters.  "sup2" stands for the
\* character U+00B2, for which str.isdigit() is True and int() raises.
AsciiDigits == <<"0", "1", "2", "3", "4", "5", "6", "7", "8", "9">>
AsciiDigitSet == {AsciiDigits[i] : i \in DOMAIN AsciiDigits}
UnicodeDigitSet == {"sup2"}

\* str.isdigit(): non-empty and every character is a digit character.
isdigit(text) ==
    /\ Len(text) > 0
    /\ \A i \in DOMAIN text : text[i] \in AsciiDigitSet \cup UnicodeDigitSet

\* int(text) raises ValueError on a digit character that is not a decimal.
IntRaises(text) == \E i \in DOMAIN text : text[i] \notin AsciiDigitSet

DigitVal(c) == (CHOOSE i \in DOMAIN AsciiDigits : AsciiDigits[i] = c) - 1

RECURSIVE int(_)
int(text) ==
    IF Len(text) = 0 THEN 0
    ELSE 10 * int(SubSeq(text, 1, Len(text) - 1)) + DigitVal(text[Len(text)])

\* A command's arguments are its whitespace-separated words; a word is
\* modelled by its length (>= 1).  ' '.join(args) has the words' lengths
\* plus one separator between neighbours.
RECURSIVE SumLen(_)
SumLen(args) ==
    IF Len(args) = 0 THEN 0 ELSE args[1] + SumLen(Tail(args))

JoinLen(args) == IF Len(args) = 0 THEN 0 ELSE SumLen(args) + Len(args) - 1

\* str.strip(), str.split(sep), str.split(sep, 1) and "sep in str".
Whitespace == {" "}

RECURSIVE lstrip(_)
lstrip(s) ==
    IF Len(s) > 0 /\ s[1] \in Whitespace THEN lstrip(Tail(s)) ELSE s

RECURSIVE rstrip(_)
rstrip(s) ==
    IF Len(s) > 0 /\ s[Len(s)] \in Whitespace
    THEN rstrip(SubSeq(s, 1, Len(s) - 1)) ELSE s

strip(s) == rstrip(lstrip(s))

Contains(s, c) == \E i \in DOMAIN s : s[i] = c

\* Index of the first occurrence of c in s (s contains c).
Find(s, c) ==
    CHOOSE i \in DOMAIN s : s[i] = c /\ \A j \in 1..(i - 1) : s[j] # c

\* s.split(c, 1) of a string that contains c: the text before the first c
\* and the text after it.
SplitOnce(s, c) ==
    <<SubSeq(s, 1, Find(s, c) - 1), SubSeq(s, Find(s, c) + 1, Len(s))>>

RECURSIVE split(_, _)
split(s, c) ==
    IF Contains(s, c)
    THEN <<SplitOnce(s, c)[1]>> \o split(SplitOnce(s, c)[2], c)
    ELSE <<s>>

\* c.join(segs)
RECURSIVE join(_, _)
join(segs, c) ==
    IF Len(segs) = 0 THEN <<>>
    ELSE IF Len(segs) = 1 THEN segs[1]
    ELSE segs[1] \o <<c>> \o join(Tail(segs), c)

\* ------------------------------------------------------- observations
Call(op, name, arg) == [op |-> op, account |-> name, arg |-> arg]
Reply(kind, body) == [kind |-> kind, body |-> body]

NoteOps == {"create_note", "get_notes", "delete_note"}

Idle ==
    [handler |-> "init", user |-> ALLOWED_USER_ID, args |-> <<>>,
     audience |-> 0, text |-> <<>>, replies |-> <<>>, calls |-> <<>>,
     raised |-> "none"]

\* The shared mutable state a handler reads and writes.
State ==
    [client |-> client, session_file |-> session_file,
     waiting_for_2fa |-> waiting_for_2fa]

\* ------------------------------------------------------------ oracles
\* What the remote collaborator answers during one call of get_client.
AcquireOracle ==
    [load  : {"ok", "raise"},
     probe : {"ok", "LoginRequired", "raise"},
     login : {"ok", "TwoFactorRequired", "raise"},
     dump  : {"ok", "raise"}]

\* ---------------------------------------------------------- get_client
LoginCall(name) == Call("login", name, <<>>)

\* if data['client']: return data['client']
\* (IsCached_Never: a variant that acquires afresh on every call.)
IsCached_Never(name, st) == FALSE
IsCached(name, st) == st.client[name]

\* cl.login succeeded: dump_settings wrote the file, then the handle is
\* cached.  (CacheLogin_NoDump: a variant that caches without writing.)
CacheLogin_NoDump(name, st) == [st EXCEPT !.client[name] = TRUE]
CacheLogin(name, st) ==
    [st EXCEPT !.client[name] = TRUE, !.session_file[name] = TRUE]

\* except TwoFactorRequired: waiting_for_2fa = name
\* (TwoFactorChallenge_Cache: a variant that also caches the handle.)
TwoFactorChallenge_Cache(name, st) ==
    [st EXCEPT !.waiting_for_2fa = name, !.client[name] = TRUE]
TwoFactorChallenge(name, st) == [st EXCEPT !.waiting_for_2fa = name]

\* except Exception: nothing is written.
\* (LoginFailed_Mark: a variant that treats every failure as a challenge.)
LoginFailed_Mark(name, st) == [st EXCEPT !.waiting_for_2fa = name]
LoginFailed(name, st) == st

get_client(name, st, o) ==
    IF IsCached(name, st)
    THEN [st |-> st, ret |-> "client", calls |-> <<>>, raised |-> "none"]
    ELSE IF st.session_file[name] /\ o.load = "raise"
    THEN [st |-> st, ret |-> "raised",
          calls |-> <<Call("load_settings", name, <<>>)>>,
          raised |-> "load_settings"]
    ELSE IF st.session_file[name] /\ o.probe = "ok"
    THEN [st |-> [st EXCEPT !.client[name] = TRUE], ret |-> "client",
          calls |-> <<Call("load_settings", name, <<>>),
                      Call("get_timeline_feed", name, <<>>)>>,
          raised |-> "none"]
    ELSE IF st.session_file[name] /\ o.probe = "raise"
    THEN [st |-> st, ret |-> "raised",
          calls |-> <<Call("load_settings", name, <<>>),
                      Call("get_timeline_feed", name, <<>>)>>,
          raised |-> "get_timeline_feed"]
    ELSE
      LET pre == IF st.session_file[name]
                 THEN <<Call("load_settings", name, <<>>),
                        Call("get_timeline_feed", name, <<>>)>>
                 ELSE <<>>
      IN CASE o.login = "ok" /\ o.dump = "ok" ->
                [st |-> CacheLogin(name, st),
                 ret |-> "client",
                 calls |-> pre \o <<LoginCall(name),
                                    Call("dump_settings", name, <<>>)>>,
                 raised |-> "none"]
           [] o.login = "ok" /\ o.dump = "raise" ->
                [st |-> st, ret |-> "None",
                 calls |-> pre \o <<LoginCall(name),
                                    Call("dump_settings", name, <<>>)>>,
                 raised |-> "none"]
           [] o.login = "TwoFactorRequired" ->
                [st |-> TwoFactorChallenge(name, st),
                 ret |-> "None", calls |-> pre \o <<LoginCall(name)>>,
                 raised |-> "none"]
           [] o.login = "raise" ->
                [st |-> LoginFailed(name, st), ret |-> "None",
                 calls |-> pre \o <<LoginCall(name)>>, raised |-> "none"]

\* Every result get_client can produce in state st.
AcquireResults(name, st) == {get_client(name, st, o) : o \in AcquireOracle}

\* ------------------------------------------------------------ handlers
\* One way a handler run can end: the shared state and pending_action it
\* leaves, the replies sent, the remote calls made, the exception that
\* escaped the handler ("none" if none did), and which of the statements
\* that write pending_action ran ("stored", "popped" or "none"; "twofa"
\* marks the 2FA branch).
Outcome(st, pa, replies, calls, raised, effect) ==
    [st |-> st, pa |-> pa, replies |-> replies, calls |-> calls,
     raised |-> raised, effect |-> effect]

\* The two kinds of PendingAction.
NoteAction(text, audience) ==
    [type |-> "note", text |-> text, audience |-> audience]
DeleteAction == [type |-> "delete_note"]

\* The action a deferring command asks for.
Asked(handler, args, audience) ==
    IF handler = "delete_note" THEN DeleteAction
    ELSE NoteAction(args, audience)

Finish(handler, user, args, audience, text, e) ==
    /\ client' = e.st.client
    /\ session_file' = e.st.session_file
    /\ waiting_for_2fa' = e.st.waiting_for_2fa
    /\ pending_action' = e.pa
    /\ last' = [handler |-> handler, user |-> user, args |-> args,
                audience |-> audience, text |-> text, replies |-> e.replies,
                calls |-> e.calls, raised |-> e.raised]
    /\ resolved' = CASE e.effect = "stored" -> FALSE
                     [] e.effect = "popped" -> TRUE
                     [] OTHER -> resolved
    /\ lastDeferred' = IF e.effect = "stored"
                       THEN Asked(handler, args, audience) ELSE lastDeferred
    /\ replaced' = IF e.effect = "stored"
                   THEN /\ user \in DOMAIN pending_action
                        /\ pending_action[user] # Asked(handler, args, audience)
                   ELSE replaced
    /\ codeUsed' = CASE e.effect = "twofa" -> TRUE
                     [] e.st.waiting_for_2fa # None -> FALSE
                     [] OTHER -> codeUsed
    /\ UNCHANGED <<account_list, parseVars, digestVars>>

\* No handler is running: the previous update has been handled.
Ready == last = Idle

\* A run that only replies (or does nothing at all).
Say(replies) == Outcome(State, pending_action, replies, <<>>, "none", "none")

\* The authorized-operator gate of a handler.
Authorized(user_id) == user_id = ALLOWED_USER_ID

\* The configuration has been parsed: one well-formed segment per account
\* (an account of the running bot is written by its one-letter name).
Credentials == [username |-> <<"u">>, password |-> <<"p">>]
Configured ==
    /\ INSTA_ACCOUNTS_STR =
           join([i \in DOMAIN account_list |->
                    <<account_list[i], "=", "u", ":", "p">>], "|")
    /\ parts = <<>>
    /\ accounts = [name \in Accounts |-> Credentials]

\* No reply digest is being built.
NoMessage == [user_id |-> "none", text |-> "none", timestamp |-> 0]
ThreadStart == 0 - 1
Building == [kind |-> "building", lines |-> <<>>]
NoDigest ==
    /\ recent = <<>>
    /\ prev = ThreadStart
    /\ msg = NoMessage
    /\ digest = Building

Init ==
    /\ account_list \in {SubSeq(AllNames, 1, n) : n \in 1..MaxAccounts}
    /\ client = [a \in Accounts |-> FALSE]
    /\ session_file \in [Accounts -> BOOLEAN]
    /\ waiting_for_2fa = None
    /\ pending_action = <<>>
    /\ last = Idle
    /\ resolved = FALSE
    /\ lastDeferred = [type |-> "none"]
    /\ replaced = FALSE
    /\ codeUsed = FALSE
    /\ Configured
    /\ NoDigest

\* The gate of /start and of /delete_note.
StartAuthorized(user_id) == user_id = ALLOWED_USER_ID
DeleteAuthorized(user_id) == user_id = ALLOWED_USER_ID

start ==
    /\ Ready
    /\ \E user_id \in Users :
           Finish("start", user_id, <<>>, 0, <<>>,
                  IF StartAuthorized(user_id)
                  THEN Say(<<Reply("help", <<>>)>>) ELSE Say(<<>>))

\* ------------------------------------------------- /note and /note_cf
\* Argument lists the operator may send: none, and texts of
\* exactly MaxNoteLen and MaxNoteLen + 1 characters, in one or two words.
NoteArgs ==
    {<<>>, <<MaxNoteLen>>, <<MaxNoteLen + 1>>,
     <<29, MaxNoteLen - 30>>, <<30, MaxNoteLen - 30>>}

\* if not context.args
NoArgs(args) == Len(args) = 0

\* text = ' '.join(context.args); if len(text) > 60
\* (TooLong_Off: the comparison written >=, an off-by-one variant.)
TooLong_Off(args) == JoinLen(args) >= MaxNoteLen
TooLong(args) == JoinLen(args) > MaxNoteLen

\* if len(account_list) == 1
\* (SingleAccount_Any: a variant that never asks which account.)
SingleAccount_Any == Len(account_list) >= 1
SingleAccount == Len(account_list) = 1

\* "Which account?" menu: one numbered line per entry of account_list.
MenuLines == [i \in 1..Len(account_list) |-> <<i, account_list[i]>>]

\* pending_action[user_id] = action
\* (StorePending_KeepFirst: a setdefault-like variant that keeps a stored
\* action.)
StorePending_KeepFirst(pa, user_id, action) ==
    [u \in DOMAIN pa \cup {user_id} |->
        IF u \in DOMAIN pa THEN pa[u] ELSE action]
StorePending(pa, user_id, action) ==
    [u \in DOMAIN pa \cup {user_id} |->
        IF u = user_id THEN action ELSE pa[u]]

\* cl.create_note(text, audience=audience) and the reply that follows.
PostNote(name, text, audience, outcome) ==
    [calls |-> <<Call("create_note", name, <<text, audience>>)>>,
     replies |-> IF outcome = "ok"
                 THEN <<Reply("posted", <<audience, name>>)>>
                 ELSE <<Reply("failed", <<>>)>>]

\* The ways get_client(name) followed by an operation can end, where
\* ops is the set of the ways the operation itself can end, and every
\* path leaves pending_action as pa (when no client came back, as paNone).
AcquireThen(name, st, pa, paNone, effect, ops) ==
    UNION {
      CASE r.ret = "raised" ->
             {Outcome(r.st, pending_action, <<>>, r.calls, r.raised, "none")}
        [] r.ret = "None" ->
             {Outcome(r.st, paNone, <<Reply("login_failed", <<>>)>>,
                      r.calls, "none", "none")}
        [] r.ret = "client" ->
             {Outcome(r.st, pa, x.replies, r.calls \o x.calls, "none", effect)
              : x \in ops}
      : r \in AcquireResults(name, st) }

NoteOutcomes(user_id, args, audience) ==
    IF ~Authorized(user_id) THEN {Say(<<>>)}
    ELSE IF NoArgs(args) THEN {Say(<<Reply("need_text", <<>>)>>)}
    ELSE IF TooLong(args) THEN {Say(<<Reply("too_long", <<>>)>>)}
    ELSE IF SingleAccount
    THEN AcquireThen(account_list[1], State, pending_action, pending_action,
                     "none",
                     {PostNote(account_list[1], args, audience, outcome)
                      : outcome \in {"ok", "raise"}})
    ELSE {Outcome(State,
                  StorePending(pending_action, user_id,
                               NoteAction(args, audience)),
                  <<Reply("menu", MenuLines)>>, <<>>, "none", "stored")}

handle_note_command(audience) ==
    /\ Ready
    /\ \E user_id \in Users, args \in NoteArgs :
           \E e \in NoteOutcomes(user_id, args, audience) :
               Finish("note", user_id, args, audience, <<>>, e)

note == handle_note_command(0)

note_cf == handle_note_command(1)

\* -------------------------------------------------------- /delete_note
DeleteSingleAccount == Len(account_list) = 1

\* cl.get_notes(), the search for the account's own note, and
\* cl.delete_note(active.id) when there is one.
DeleteOracle == [notes : {"active", "none", "raise"}, del : {"ok", "raise"}]

DeleteActive(name, o, noneKind) ==
    CASE o.notes = "raise" ->
            [calls |-> <<Call("get_notes", name, <<>>)>>,
             replies |-> <<Reply("error", <<>>)>>]
      [] o.notes = "none" ->
            [calls |-> <<Call("get_notes", name, <<>>)>>,
             replies |-> <<Reply(noneKind, <<>>)>>]
      [] o.notes = "active" ->
            [calls |-> <<Call("get_notes", name, <<>>),
                         Call("delete_note", name, <<>>)>>,
             replies |-> IF o.del = "ok"
                         THEN <<Reply("deleted", <<>>)>>
                         ELSE <<Reply("error", <<>>)>>]

DeleteOutcomes(user_id) ==
    IF ~DeleteAuthorized(user_id) THEN {Say(<<>>)}
    ELSE IF DeleteSingleAccount
    THEN AcquireThen(account_list[1], State, pending_action, pending_action,
                     "none",
                     {DeleteActive(account_list[1], o, "no_active_note")
                      : o \in DeleteOracle})
    ELSE {Outcome(State,
                  StorePending(pending_action, user_id, DeleteAction),
                  <<Reply("delete_menu", MenuLines)>>, <<>>, "none",
                  "stored")}

delete_note ==
    /\ Ready
    /\ \E user_id \in Users :
           \E e \in DeleteOutcomes(user_id) :
               Finish("delete_note", user_id, <<>>, 0, <<>>, e)

\* ------------------------------------------- /current_note, /note_replies
\* One line of a fan-out reply: its 1-based number, the account, its status.
Entry(i, name, status) == [index |-> i, account |-> name, status |-> status]

\* The loop over account_list from account number i on; the set of the
\* ways it can end.  op is the remote call made with the client and
\* statuses the lines it can lead to (the last one when it raises).
RECURSIVE FanOutLoop(_, _, _, _, _, _)
FanOutLoop(i, st, lines, calls, op, statuses) ==
    IF i > Len(account_list)
    THEN {[st |-> st, lines |-> lines, calls |-> calls, raised |-> "none"]}
    ELSE
      LET name == account_list[i]
      IN UNION {
           CASE r.ret = "raised" ->
                  {[st |-> r.st, lines |-> lines, calls |-> calls \o r.calls,
                    raised |-> r.raised]}
             [] r.ret = "None" ->
                  FanOutLoop(i + 1, r.st,
                      Append(lines, Entry(i, name, "Login failed")),
                      calls \o r.calls, op, statuses)
             [] r.ret = "client" ->
                  UNION {
                    FanOutLoop(i + 1, r.st,
                        Append(lines, Entry(i, name, status)),
                        calls \o r.calls \o <<Call(op, name, <<>>)>>,
                        op, statuses)
                    : status \in statuses }
           : r \in AcquireResults(name, st) }

\* The reply is sent after the loop, so only if nothing escaped from it.
FanOutOutcomes(user_id, kind, op, statuses) ==
    IF ~Authorized(user_id) THEN {Say(<<>>)}
    ELSE {Outcome(e.st, pending_action,
                  IF e.raised = "none" THEN <<Reply(kind, e.lines)>>
                  ELSE <<>>,
                  e.calls, e.raised, "none")
          : e \in FanOutLoop(1, State, <<>>, <<>>, op, statuses)}

current_note ==
    /\ Ready
    /\ \E user_id \in Users :
           \E e \in FanOutOutcomes(user_id, "current_notes", "get_notes",
                                   {"active", "(none)", "Error"}) :
               Finish("current_note", user_id, <<>>, 0, <<>>, e)

note_replies ==
    /\ Ready
    /\ \E user_id \in Users :
           \E e \in FanOutOutcomes(user_id, "recent_replies", "direct_threads",
                                   {"digest", "Error"}) :
               Finish("note_replies", user_id, <<>>, 0, <<>>, e)

\* ------------------------------------------------------ handle_message
\* Free-text messages the senders may write.
MessageTexts ==
    {<<"1">>, <<"2">>, <<"3">>, <<"0">>, <<"x">>, <<"sup2">>, <<"0", "1">>,
     <<"1", "2", "3", "4", "5", "6">>, <<"0", "0", "0", "0", "0", "1">>}

\* if waiting_for_2fa and user_id == ALLOWED_USER_ID
\* (Variants: TwoFAGuard_NoAuth drops the sender check;
\* TwoFAGuard_PendingFirst lets a stored PendingAction go first.)
TwoFAGuard_NoAuth(user_id) == waiting_for_2fa # None
TwoFAGuard_PendingFirst(user_id) ==
    /\ waiting_for_2fa # None
    /\ user_id = ALLOWED_USER_ID
    /\ user_id \notin DOMAIN pending_action
TwoFAGuard(user_id) ==
    waiting_for_2fa # None /\ user_id = ALLOWED_USER_ID

\* if text.isdigit() and len(text) == 6
\* (IsTwoFACode_AnyLength: a variant that takes every number as a code.)
IsTwoFACode_AnyLength(text) == isdigit(text)
IsTwoFACode(text) == isdigit(text) /\ Len(text) = TwoFACodeLen

\* waiting_for_2fa = None, on the success and on the failure branch
\* (ClearTwoFA_Keep: a variant that forgets to clear the marker.)
ClearTwoFA_Keep(st) == st
ClearTwoFA(st) == [st EXCEPT !.waiting_for_2fa = None]

\* if 1 <= choice <= len(account_list)
ValidChoice(choice) == 1 <= choice /\ choice <= Len(account_list)

\* pending_action.pop(user_id)
\* (PopPending_Keep: a variant that reads the action without removing it.)
PopPending_Keep(pa, user_id) == pa
PopPending(pa, user_id) == [u \in DOMAIN pa \ {user_id} |-> pa[u]]

\* "if not cl: ... return" leaves pending_action as it is.
\* (PendingAfterFailedAcquire_Pop: a variant that pops before get_client.)
PendingAfterFailedAcquire_Pop(pa, user_id) ==
    [u \in DOMAIN pa \ {user_id} |-> pa[u]]
PendingAfterFailedAcquire(pa, user_id) == pa

\* The 2FA branch's login raised: nothing is cached or written.
\* (CodeLoginFailed_Cache: a variant that caches the handle before login.)
CodeLoginFailed_Cache(name, st) == [st EXCEPT !.client[name] = TRUE]
CodeLoginFailed(name, st) == st

\* The 2FA branch: a fresh login with the code, then dump_settings.
TwoFAOracle == [login : {"ok", "raise"}, dump : {"ok", "raise"}]

TwoFAComplete(text, st, o) ==
    LET name == st.waiting_for_2fa
        verifying == Reply("verifying", <<>>)
        failed == Reply("2fa_failed", <<>>)
    IN IF IntRaises(text)
       THEN [st |-> ClearTwoFA(st), replies |-> <<verifying, failed>>,
             calls |-> <<>>]
       ELSE
         LET login == Call("login", name, <<int(text)>>)
             dump == Call("dump_settings", name, <<>>)
         IN CASE o.login = "raise" ->
                   [st |-> ClearTwoFA(CodeLoginFailed(name, st)),
                    replies |-> <<verifying, failed>>,
                    calls |-> <<login>>]
              [] o.login = "ok" /\ o.dump = "raise" ->
                   [st |-> ClearTwoFA(st), replies |-> <<verifying, failed>>,
                    calls |-> <<login, dump>>]
              [] o.login = "ok" /\ o.dump = "ok" ->
                   [st |-> ClearTwoFA([st EXCEPT !.session_file[name] = TRUE,
                                                 !.client[name] = TRUE]),
                    replies |-> <<verifying, Reply("2fa_success", <<name>>)>>,
                    calls |-> <<login, dump>>]

\* Execution of the popped action on the chosen account.
RunAction(name, action) ==
    IF action.type = "note"
    THEN {PostNote(name, action.text, action.audience, outcome)
          : outcome \in {"ok", "raise"}}
    ELSE {DeleteActive(name, o, "no_note_to_delete") : o \in DeleteOracle}

MessageOutcomes(user_id, text) ==
    IF TwoFAGuard(user_id) /\ IsTwoFACode(text)
    THEN {Outcome(t.st, pending_action, t.replies, t.calls, "none", "twofa")
          : t \in {TwoFAComplete(text, State, o) : o \in TwoFAOracle}}
    ELSE IF user_id \in DOMAIN pending_action /\ isdigit(text)
    THEN IF IntRaises(text)
         THEN {Outcome(State, pending_action, <<>>, <<>>, "ValueError",
                       "none")}
         ELSE IF ValidChoice(int(text))
         THEN AcquireThen(account_list[int(text)], State,
                          PopPending(pending_action, user_id),
                          PendingAfterFailedAcquire(pending_action, user_id),
                          "popped",
                          RunAction(account_list[int(text)],
                                    pending_action[user_id]))
         ELSE {Say(<<>>)}
    ELSE {Say(<<>>)}

handle_message ==
    /\ Ready
    /\ \E user_id \in Users, text \in MessageTexts :
           \E e \in MessageOutcomes(user_id, text) :
               Finish("message", user_id, <<>>, 0, text, e)

\* run_polling hands the next update to its handler once the handler of
\* the previous one has returned; the observation of that run is dropped.
next_update ==
    /\ last # Idle
    /\ last' = Idle
    /\ UNCHANGED <<account_list, client, session_file, waiting_for_2fa,
                   pending_action, resolved, lastDeferred, replaced,
                   codeUsed, parseVars, digestVars>>

Next ==
    \/ next_update
    \/ start
    \/ note
    \/ note_cf
    \/ current_note
    \/ delete_note
    \/ note_replies
    \/ handle_message

Spec == Init /\ [][Next]_vars

\* ------------------------------------------------------ account parsing
\* Segments an INSTA_ACCOUNTS setting may be made of: well-formed ones
\* (plain, and with blanks around the name), and malformed or empty ones.
SegmentTexts ==
    {<<"a", "=", "u", ":", "p">>,
     <<"b", "=", "u", ":", "p">>,
     <<" ", "a", " ", "=", "u", ":", "p">>,
     <<"b", "=", "u", "p">>,
     <<"b", ":", "p">>,
     <<"b", ":", "u", "=", "p">>,
     <<" ">>,
     <<>>}

\* The settings of 1..MaxSegments segments joined by '|'.
Configs ==
    {join(segs, "|") :
        segs \in UNION {[1..n -> SegmentTexts] : n \in 1..MaxSegments}}

\* accounts[name] = {...}: a later entry of the same name replaces it.
StoreAccount(accs, name, entry) ==
    [n \in DOMAIN accs \cup {name} |-> IF n = name THEN entry ELSE accs[n]]

\* The state before the parsing loop; an empty or blank setting has
\* already ended the program.
InitParse ==
    /\ INSTA_ACCOUNTS_STR \in Configs
    /\ strip(INSTA_ACCOUNTS_STR) # <<>>
    /\ parts = split(INSTA_ACCOUNTS_STR, "|")
    /\ accounts = <<>>
    /\ account_list = <<>>
    /\ client = <<>>
    /\ session_file = <<>>
    /\ waiting_for_2fa = None
    /\ pending_action = <<>>
    /\ last = Idle
    /\ resolved = FALSE
    /\ lastDeferred = [type |-> "none"]
    /\ replaced = FALSE
    /\ codeUsed = FALSE
    /\ NoDigest

\* One iteration of "for part in INSTA_ACCOUNTS_STR.split('|')".
parse_part ==
    /\ parts # <<>>
    /\ parts' = Tail(parts)
    /\ LET part == strip(Head(parts))
       IN IF part = <<>> \/ ~Contains(part, "=")
          THEN UNCHANGED <<accounts, account_list>>
          ELSE LET name == strip(SplitOnce(part, "=")[1])
                   user_pass == SplitOnce(part, "=")[2]
               IN IF ~Contains(user_pass, ":")
                  THEN UNCHANGED <<accounts, account_list>>
                  ELSE /\ accounts' =
                             StoreAccount(accounts, name,
                                 [username |->
                                      strip(SplitOnce(user_pass, ":")[1]),
                                  password |-> SplitOnce(user_pass, ":")[2]])
                       /\ account_list' = Append(account_list, name)
    /\ UNCHANGED <<INSTA_ACCOUNTS_STR, botVars, digestVars>>

NextParse == parse_part

SpecParse == InitParse /\ [][NextParse]_vars

\* ------------------------------------------- the reply digest of an account
\* datetime.now(), in seconds, while one digest is built.
Now == 200000

\* timedelta(hours=24), in seconds.
Window == WindowHours * 3600

\* cl.user_id, and the user_id of somebody else.
SelfId == "me"
OtherId == "u"

\* Messages direct_messages may return: by the account itself and by
\* somebody else; 24h and 1s old, exactly 24h old, and 23h 59m old (that
\* one without text: a media message).
Messages ==
    {[user_id |-> u, text |-> IF age = Window - 60 THEN None ELSE "hi",
      timestamp |-> Now - age]
     : u \in {SelfId, OtherId}, age \in {Window + 1, Window, Window - 60}}

\* if msg.timestamp < datetime.now() - timedelta(hours=24): continue
\* (TooOld_Inclusive: a variant that also drops a message exactly 24h old.)
TooOld_Inclusive(m) == m.timestamp <= Now - Window
TooOld(m) == m.timestamp < Now - Window

\* if msg.user_id != cl.user_id
FromOther(m) == m.user_id # SelfId

\* msg.timestamp.strftime('%H:%M')
HHMM(t) == <<(t \div 3600) % 24, (t \div 60) % 60>>

\* The line appended for a message; "of" is not text of the line, it
\* records the timestamp of the message the line renders.
Line(m) ==
    [sender |-> m.user_id,
     text |-> IF m.text = None THEN "[media/emoji]" ELSE m.text,
     time |-> HHMM(m.timestamp),
     of |-> m.timestamp]

\* recent[-8:]
\* (LastLines_First: a variant that takes recent[:8].)
LastLines_First(lines) ==
    IF Len(lines) > DigestCap THEN SubSeq(lines, 1, DigestCap) ELSE lines
LastLines(lines) ==
    IF Len(lines) > DigestCap
    THEN SubSeq(lines, Len(lines) - DigestCap + 1, Len(lines))
    ELSE lines

\* get_client has returned a handle for the single account, and the
\* digest of that account is about to be built.
InitDigest ==
    /\ account_list = <<"a">>
    /\ client = [a \in Accounts |-> TRUE]
    /\ session_file = [a \in Accounts |-> TRUE]
    /\ waiting_for_2fa = None
    /\ pending_action = <<>>
    /\ last = Idle
    /\ resolved = FALSE
    /\ lastDeferred = [type |-> "none"]
    /\ replaced = FALSE
    /\ codeUsed = FALSE
    /\ Configured
    /\ NoDigest

\* for thread in threads: msgs = cl.direct_messages(thread.id, amount=10)
\* The next thread begins (a thread without messages changes nothing).
direct_messages ==
    /\ digest = Building
    /\ prev # ThreadStart
    /\ prev' = ThreadStart
    /\ msg' = NoMessage
    /\ UNCHANGED <<recent, digest>>
    /\ UNCHANGED <<account_list, botVars, parseVars>>

\* One iteration of "for msg in reversed(msgs)".  direct_messages lists a
\* thread newest first, so the loop meets its messages oldest first.
read_message ==
    /\ digest = Building
    /\ Len(recent) < MaxLines
    /\ \E m \in Messages :
           /\ prev = ThreadStart \/ m.timestamp >= prev
           /\ msg' = m
           /\ prev' = m.timestamp
           /\ recent' = IF ~TooOld(m) /\ FromOther(m)
                        THEN Append(recent, Line(m)) ELSE recent
    /\ UNCHANGED digest
    /\ UNCHANGED <<account_list, botVars, parseVars>>

\* status = "\n".join(recent[-8:]) if recent else "No recent replies"
build_status ==
    /\ digest = Building
    /\ digest' = [kind |-> IF recent # <<>> THEN "lines"
                           ELSE "No recent replies",
                  lines |-> LastLines(recent)]
    /\ UNCHANGED <<recent, prev, msg>>
    /\ UNCHANGED <<account_list, botVars, parseVars>>

\* except Exception: a remote call of the digest raised.
digest_error ==
    /\ digest = Building
    /\ digest' = [kind |-> "Error", lines |-> <<>>]
    /\ UNCHANGED <<recent, prev, msg>>
    /\ UNCHANGED <<account_list, botVars, parseVars>>

NextDigest ==
    \/ direct_messages
    \/ read_message
    \/ build_status
    \/ digest_error

SpecDigest == InitDigest /\ [][NextDigest]_vars

\* ============================================================== claims
Operator == ALLOWED_USER_ID

\* The ops of the calls made, and the kinds of the replies sent, by a run.
Ops(calls) == {calls[i].op : i \in DOMAIN calls}
Kinds(replies) == {replies[i].kind : i \in DOMAIN replies}

NoNoteCall(calls) == Ops(calls) \cap NoteOps = {}

\* A step in which handle_message handles a digit-only text of the operator.
NumericReply ==
    /\ last'.handler = "message"
    /\ last'.user = Operator
    /\ isdigit(last'.text)

TwoFAKinds == {"verifying", "2fa_success", "2fa_failed"}

\* A login made with a verification code (the 2FA branch's login).
CodeLogins(calls) ==
    {i \in DOMAIN calls : calls[i].op = "login" /\ calls[i].arg # <<>>}

\* ------------------------------------------------------------------ C1
\* C1 as stated: once a numeric reply has resolved the pending action, a
\* further numeric reply of the operator, with no deferring command
\* accepted in between, issues no note call and sends no reply.
C1_AsStated ==
    [][(resolved /\ NumericReply) =>
          (NoNoteCall(last'.calls) /\ last'.replies = <<>>)]_vars

\* C1 amended: in that situation no pending action remains and the further
\* numeric reply issues no note call; it sends no reply unless a 2FA
\* challenge is pending and the reply is a 6-digit code, which the 2FA
\* branch then answers.
C1_ExecutedOnce ==
    [][(resolved /\ NumericReply) =>
          /\ Operator \notin DOMAIN pending_action
          /\ NoNoteCall(last'.calls)
          /\ Operator \notin DOMAIN pending_action'
          /\ \/ last'.replies = <<>>
             \/ /\ waiting_for_2fa # None
                /\ IsTwoFACode(last'.text)
                /\ Kinds(last'.replies) \subseteq TwoFAKinds]_vars

\* Witness: the pending action has been resolved and a repeated valid
\* index ("1" again) has just been ignored.
C1_Witness ==
    /\ resolved
    /\ last.handler = "message" /\ last.user = Operator
    /\ last.text = <<"1">>
    /\ last.calls = <<>> /\ last.replies = <<>>

\* ------------------------------------------------------------------ C2
\* C2 as stated: the 2FA branch always clears the marker, and after it a
\* second 6-digit message, with no challenge raised in between, performs
\* no login attempt and produces no 2FA success/failure reply.
C2_AsStated ==
    [][/\ codeUsed => waiting_for_2fa = None
       /\ (codeUsed /\ NumericReply /\ IsTwoFACode(last'.text)) =>
             /\ "login" \notin Ops(last'.calls)
             /\ Kinds(last'.replies) \cap TwoFAKinds = {}]_vars

\* C2 amended: the marker is cleared on success and on failure, and the
\* second 6-digit message performs no two-factor completion (no login with
\* a verification code, no 2FA reply).  It does something only as an
\* account selection, when the operator has a PendingAction and the
\* message's integer value is a valid index (for instance 000001); that
\* selection may make an ordinary credential login through get_client.
C2_NoSecondCompletion ==
    [][/\ codeUsed => waiting_for_2fa = None
       /\ (codeUsed /\ NumericReply /\ IsTwoFACode(last'.text)) =>
             /\ CodeLogins(last'.calls) = {}
             /\ Kinds(last'.replies) \cap TwoFAKinds = {}
             /\ (last'.calls # <<>> \/ last'.replies # <<>>) =>
                   /\ Operator \in DOMAIN pending_action
                   /\ ~IntRaises(last'.text)
                   /\ ValidChoice(int(last'.text))]_vars

\* Witness: a code has gone through the 2FA branch, no challenge has been
\* raised since, and a second code has just been ignored.
C2_Witness ==
    /\ codeUsed /\ waiting_for_2fa = None
    /\ last.handler = "message" /\ last.user = Operator
    /\ last.text = <<"1", "2", "3", "4", "5", "6">>
    /\ last.calls = <<>> /\ last.replies = <<>>

\* ------------------------------------------------------------------ C3
\* The 2FA branch was taken by the run: it starts with "Verifying 2FA...".
TookTwoFA(replies) == Len(replies) >= 1 /\ replies[1].kind = "verifying"

\* C3 as stated: with a challenge pending and a PendingAction stored, any
\* numeric reply takes the 2FA path and leaves the pending action alone.
\* (Stated of the runs from which no exception escaped.)
C3_AsStated ==
    [][(/\ waiting_for_2fa # None
        /\ Operator \in DOMAIN pending_action
        /\ NumericReply
        /\ last'.raised = "none") =>
          /\ TookTwoFA(last'.replies)
          /\ pending_action' = pending_action
          /\ NoNoteCall(last'.calls)]_vars

\* C3 amended: with a challenge pending and a PendingAction stored, a
\* 6-digit numeric reply takes the 2FA path and returns: the marker is
\* cleared, and the pending action is neither executed nor removed.
C3_TwoFAFirst ==
    [][(/\ waiting_for_2fa # None
        /\ Operator \in DOMAIN pending_action
        /\ NumericReply
        /\ IsTwoFACode(last'.text)) =>
          /\ TookTwoFA(last'.replies)
          /\ waiting_for_2fa' = None
          /\ pending_action' = pending_action
          /\ NoNoteCall(last'.calls)]_vars

\* Witness: a code that is also a valid index (000001) went through the
\* 2FA branch while the operator's pending action stayed stored.
C3_Witness ==
    /\ last.handler = "message" /\ last.user = Operator
    /\ last.text = <<"0", "0", "0", "0", "0", "1">>
    /\ TookTwoFA(last.replies)
    /\ Operator \in DOMAIN pending_action

\* ------------------------------------------------------------------ C4
\* The run was a /note or /note_cf of the operator with a valid text.
ValidNoteRun ==
    /\ last.handler = "note" /\ last.user = Operator
    /\ Len(last.args) > 0 /\ JoinLen(last.args) <= MaxNoteLen

Menus == {"menu", "delete_menu"}

\* The create_note calls of the run are exactly one, on account name, with
\* the run's own text and audience.
PostedOn(name) ==
    /\ \E i \in DOMAIN last.calls :
          last.calls[i] =
              Call("create_note", name, <<last.args, last.audience>>)
    /\ Cardinality({i \in DOMAIN last.calls :
                       last.calls[i].op = "create_note"}) = 1

\* More than one account: no remote call, one menu with a line per
\* configured account, and the action stored under the operator.
DeferredWithMenu ==
    /\ last.calls = <<>>
    /\ Len(last.replies) = 1 /\ last.replies[1].kind = "menu"
    /\ Len(last.replies[1].body) = Len(account_list)
    /\ \A i \in DOMAIN account_list :
          last.replies[1].body[i] = <<i, account_list[i]>>
    /\ Operator \in DOMAIN pending_action
    /\ pending_action[Operator] = NoteAction(last.args, last.audience)

\* C4 as stated: with one account the note is posted by the command
\* itself, without menu or PendingAction; with more the command defers.
\* (Stated of the runs from which no exception escaped.)
C4_AsStated ==
    (ValidNoteRun /\ last.raised = "none") =>
        IF Len(account_list) = 1
        THEN /\ PostedOn(account_list[1])
             /\ Kinds(last.replies) \cap Menus = {}
             /\ pending_action = <<>>
        ELSE DeferredWithMenu

\* C4 amended: with one account no menu is sent and no PendingAction is
\* stored, and the note create call is issued by the command itself
\* exactly when get_client yields a client for the account (otherwise the
\* only reply is the login-failure message, or the acquisition error
\* escapes, and no note call is made); with more the command defers.
C4_ImmediateOrDeferred ==
    ValidNoteRun =>
        IF Len(account_list) = 1
        THEN /\ Kinds(last.replies) \cap Menus = {}
             /\ pending_action = <<>>
             /\ IF client[account_list[1]]
                THEN PostedOn(account_list[1])
                ELSE /\ NoNoteCall(last.calls)
                     /\ \/ last.replies = <<Reply("login_failed", <<>>)>>
                        \/ last.replies = <<>> /\ last.raised # "none"
        ELSE DeferredWithMenu

\* Witness: the single configured account posted at once.
C4_Witness ==
    /\ ValidNoteRun
    /\ Len(account_list) = 1
    /\ PostedOn(account_list[1])
    /\ "posted" \in Kinds(last.replies)

\* ------------------------------------------------------------------ C5
\* The note calls of a run, in order.
RECURSIVE NoteCallsOf(_)
NoteCallsOf(calls) ==
    IF calls = <<>> THEN <<>>
    ELSE IF Head(calls).op \in NoteOps
         THEN <<Head(calls)>> \o NoteCallsOf(Tail(calls))
         ELSE NoteCallsOf(Tail(calls))

\* The note calls that carry out action on account name.
Carries(noteCalls, action, name) ==
    IF action.type = "note"
    THEN noteCalls =
            <<Call("create_note", name, <<action.text, action.audience>>)>>
    ELSE \/ noteCalls = <<Call("get_notes", name, <<>>)>>
         \/ noteCalls = <<Call("get_notes", name, <<>>),
                          Call("delete_note", name, <<>>)>>

\* C5: only the operator ever has a PendingAction, and at most one; while
\* one is stored it is the action of the most recent deferring command
\* (an earlier unresolved one is overwritten); and a numeric reply that
\* issues note calls carries out that most recent action only, with its
\* own text and audience, on the account at the chosen index.
C5_LatestCommandWins ==
    /\ DOMAIN pending_action \subseteq {Operator}
    /\ Cardinality(DOMAIN pending_action) <= 1
    /\ Operator \in DOMAIN pending_action =>
          pending_action[Operator] = lastDeferred
    /\ (last.handler = "message" /\ ~NoNoteCall(last.calls)) =>
          /\ last.user = Operator
          /\ Carries(NoteCallsOf(last.calls), lastDeferred,
                     account_list[int(last.text)])

\* Witness: the latest deferring command replaced a different stored
\* action, and a numeric reply has just carried the latest one out.
C5_Witness ==
    /\ replaced /\ resolved
    /\ last.handler = "message" /\ ~NoNoteCall(last.calls)
    /\ lastDeferred.type = "note"

\* ------------------------------------------------------------------ C6
\* C6 as stated: the next numeric reply removes the PendingAction.
\* (Stated of the runs from which no exception escaped.)
C6_AsStated ==
    [][(/\ Operator \in DOMAIN pending_action
        /\ NumericReply
        /\ last'.raised = "none") =>
          Operator \notin DOMAIN pending_action']_vars

\* The numeric reply reaches the account selection with a valid index.
Selects(text) ==
    /\ ~(waiting_for_2fa # None /\ IsTwoFACode(text))
    /\ ~IntRaises(text)
    /\ ValidChoice(int(text))

\* C6 amended: the next numeric reply removes the PendingAction exactly
\* when it is not taken as a 2FA code, is a valid 1-based index into the
\* account list, and get_client yields a client for the chosen account;
\* every other numeric reply leaves the PendingAction stored, unchanged.
C6_ConsumedBySelection ==
    [][(Operator \in DOMAIN pending_action /\ NumericReply) =>
          IF /\ Selects(last'.text)
             /\ client'[account_list[int(last'.text)]]
          THEN Operator \notin DOMAIN pending_action'
          ELSE pending_action' = pending_action]_vars

\* Witness: a selection has just consumed the pending delete action.
C6_Witness ==
    /\ last.handler = "message" /\ last.user = Operator
    /\ "get_notes" \in Ops(last.calls)
    /\ Operator \notin DOMAIN pending_action
    /\ resolved

\* ------------------------------------------------------------------ C7
RemoteRaises == {"load_settings", "get_timeline_feed"}

\* C7 as stated: no exception of a remote call escapes a handler.
C7_AsStated == last.raised \notin RemoteRaises

\* ------------------------------------------------------------------ C8
FanOuts == {"current_note", "note_replies"}

\* C8 as stated: a fan-out command of the operator ends with exactly one
\* reply that has one entry per configured account, in account order.
C8_AsStated ==
    (last.handler \in FanOuts /\ last.user = Operator) =>
        /\ Len(last.replies) = 1
        /\ Len(last.replies[1].body) = Len(account_list)
        /\ \A i \in DOMAIN account_list :
              /\ last.replies[1].body[i].index = i
              /\ last.replies[1].body[i].account = account_list[i]

\* ------------------------------------------------------------------ C9
\* A step in which a handler handles an update of another sender.
StrangerRun == last'.handler # "init" /\ last'.user # Operator

\* C9: an update whose sender is not the operator gets no reply, causes
\* no remote call and no exception, and leaves pending_action, the 2FA
\* marker, every cached client and every session file unchanged.
C9_StrangersIgnored ==
    [][StrangerRun =>
          /\ last'.replies = <<>>
          /\ last'.calls = <<>>
          /\ last'.raised = "none"
          /\ pending_action' = pending_action
          /\ waiting_for_2fa' = waiting_for_2fa
          /\ client' = client
          /\ session_file' = session_file]_vars

\* Witness: a stranger's 6-digit valid index has just been handled while a
\* challenge is pending and the operator has a PendingAction.
C9_Witness ==
    /\ last.handler = "message" /\ last.user = Stranger
    /\ last.text = <<"0", "0", "0", "0", "0", "1">>
    /\ waiting_for_2fa # None
    /\ Operator \in DOMAIN pending_action

\* ----------------------------------------------------------------- C10
Rejections == {"need_text", "too_long"}

\* C10: a post command of the operator is accepted exactly when its text
\* is non-empty and at most 60 characters long; a rejected one sends one
\* rejection message, makes no remote call and leaves pending_action as
\* it was (nothing stored, a stored action unchanged).
C10_LengthGate ==
    [][(last'.handler = "note" /\ last'.user = Operator) =>
          IF Len(last'.args) > 0 /\ JoinLen(last'.args) <= 60
          THEN Kinds(last'.replies) \cap Rejections = {}
          ELSE /\ Len(last'.replies) = 1
               /\ last'.replies[1].kind \in Rejections
               /\ last'.calls = <<>>
               /\ last'.raised = "none"
               /\ pending_action' = pending_action]_vars

\* Witness: a 61-character text (two words, 30 + 1 + 30) has just been
\* rejected while an earlier action stays stored.
C10_Witness ==
    /\ last.handler = "note" /\ last.user = Operator
    /\ last.args = <<30, 30>>
    /\ last.replies = <<Reply("too_long", <<>>)>>
    /\ Operator \in DOMAIN pending_action

\* ----------------------------------------------------------------- C11
\* get_client reaches cl.login: no handle is cached and the session file,
\* if there is one, was restored and its probe reported LoginRequired.
LoginReached(name, o) ==
    /\ ~client[name]
    /\ session_file[name] => o.load = "ok" /\ o.probe = "LoginRequired"

\* The calls a run made on one account.
CallsOn(calls, name) == SelectSeq(calls, LAMBDA c : c.account = name)

\* The run's last call on the account was a credential login: the login
\* did not succeed (no dump_settings followed it).
LoginRefused(calls, name) ==
    LET mine == CallsOn(calls, name)
    IN Len(mine) > 0 /\ mine[Len(mine)] = LoginCall(name)

\* C11: when cl.login raises TwoFactorRequired, get_client sets
\* waiting_for_2fa to the account's name, caches no handle and returns
\* None; on any other login failure it returns None and leaves the marker
\* as it was.  The marker is set to a name only by a refused credential
\* login on that account, and it always is None or a configured account.
C11_TwoFactorChallenge ==
    /\ [](waiting_for_2fa \in Accounts \cup {None})
    /\ [](Ready =>
            \A name \in Accounts, o \in AcquireOracle :
                LoginReached(name, o) =>
                    LET r == get_client(name, State, o)
                    IN /\ o.login = "TwoFactorRequired" =>
                              /\ r.st.waiting_for_2fa = name
                              /\ ~r.st.client[name]
                              /\ r.ret = "None"
                       /\ o.login = "raise" =>
                              /\ r.ret = "None"
                              /\ r.st.waiting_for_2fa = waiting_for_2fa
                              /\ ~r.st.client[name])
    /\ [][waiting_for_2fa' \notin {waiting_for_2fa, None} =>
              /\ LoginRefused(last'.calls, waiting_for_2fa')
              /\ ~client'[waiting_for_2fa']]_vars

\* A /note run on a single account whose login was answered by a
\* challenge: the marker names the account and nothing is cached.
C11_Witness ==
    /\ last.handler = "note"
    /\ Kinds(last.replies) = {"login_failed"}
    /\ waiting_for_2fa \in Accounts
    /\ LoginRefused(last.calls, waiting_for_2fa)
    /\ ~client[waiting_for_2fa]

\* ----------------------------------------------------------------- C12
\* The calls by which get_client acquires a handle.
AcquireOps == {"load_settings", "get_timeline_feed", "login", "dump_settings"}

\* C12: get_client on an account whose handle is cached returns it with
\* no remote call and changes nothing (session file and marker included);
\* with no cached handle and a session file whose restore and probe
\* succeed, it caches the restored handle and returns it without a
\* credential login, changing nothing else.  Accordingly a handler run
\* other than a two-factor completion makes no acquiring call on an
\* account whose handle was cached when the run began.
C12_CachedOrRestored ==
    /\ [](Ready =>
            \A name \in Accounts, o \in AcquireOracle :
                LET r == get_client(name, State, o)
                IN /\ client[name] =>
                          /\ r.ret = "client"
                          /\ r.calls = <<>>
                          /\ r.st = State
                   /\ (/\ ~client[name] /\ session_file[name]
                       /\ o.load = "ok" /\ o.probe = "ok") =>
                          /\ r.ret = "client"
                          /\ "login" \notin Ops(r.calls)
                          /\ r.st = [State EXCEPT !.client[name] = TRUE])
    /\ [][\A name \in Accounts :
              (client[name] /\ ~TookTwoFA(last'.replies)) =>
                  /\ Ops(CallsOn(last'.calls, name)) \cap AcquireOps = {}
                  /\ client'[name]
                  /\ session_file'[name] = session_file[name]]_vars

\* A /note run on a single account that made the create_note call and no
\* acquiring call: the handle was cached.
C12_Witness ==
    /\ ValidNoteRun
    /\ Len(account_list) = 1
    /\ client[account_list[1]]
    /\ Len(last.calls) = 1
    /\ last.calls[1].op = "create_note"

\* ----------------------------------------------------------------- C13
\* The run's last call on the account was a login, with or without a
\* verification code, that raised.
LoginRaised(calls, name) ==
    LET mine == CallsOn(calls, name)
    IN Len(mine) > 0 /\ mine[Len(mine)].op = "login"

\* The run logged in on the account and then called dump_settings.
LoginThenDump(calls, name) ==
    LET mine == CallsOn(calls, name)
    IN \E i \in 1..(Len(mine) - 1) :
           mine[i].op = "login" /\ mine[i + 1].op = "dump_settings"

\* C13: an account with a cached handle has a session file, in every
\* reachable state.  A handle that a run caches after a login was cached
\* after dump_settings wrote the session file, and is not cached when
\* dump_settings raises; a login that raises, in get_client and in the
\* 2FA branch alike, and a 2FA completion that fails, leave the account's
\* session file and cached handle as they were.
C13_SessionBeforeCache ==
    /\ [](\A a \in Accounts : client[a] => session_file[a])
    /\ [](Ready =>
            /\ \A name \in Accounts, o \in AcquireOracle :
                   (LoginReached(name, o) /\ o.login = "ok"
                    /\ o.dump = "raise") =>
                       get_client(name, State, o).st = State
            /\ waiting_for_2fa # None =>
                   \A o \in TwoFAOracle :
                       (o.login = "raise" \/ o.dump = "raise") =>
                           TwoFAComplete(<<"1", "2", "3", "4", "5", "6">>,
                                         State, o).st
                               = ClearTwoFA(State))
    /\ [][\A a \in Accounts :
              /\ (/\ ~client[a] /\ client'[a]
                  /\ "login" \in Ops(CallsOn(last'.calls, a))) =>
                     LoginThenDump(last'.calls, a) /\ session_file'[a]
              /\ LoginRaised(last'.calls, a) =>
                     /\ client'[a] = client[a]
                     /\ session_file'[a] = session_file[a]
              /\ "2fa_failed" \in Kinds(last'.replies) =>
                     client' = client /\ session_file' = session_file]_vars

\* A run has just logged in with the credentials on an account, written
\* its session file and cached its handle.
C13_Witness ==
    \E a \in Accounts :
        /\ LoginThenDump(last.calls, a)
        /\ CodeLogins(last.calls) = {}
        /\ client[a] /\ session_file[a]
        /\ Kinds(last.replies) \cap {"login_failed", "2fa_failed"} = {}

\* ----------------------------------------------------------------- C14
\* The segments of the setting, as they are written.
Segments == split(INSTA_ACCOUNTS_STR, "|")

\* A segment that has '=' and, after it, ':'.
WellFormed(seg) ==
    \E i \in DOMAIN seg, j \in DOMAIN seg :
        i < j /\ seg[i] = "=" /\ seg[j] = ":"

NameOf(seg) == strip(SubSeq(seg, 1, Find(seg, "=") - 1))

\* The names of the well-formed segments, in order.
RECURSIVE WellFormedNames(_)
WellFormedNames(segs) ==
    IF segs = <<>> THEN <<>>
    ELSE (IF WellFormed(Head(segs)) THEN <<NameOf(Head(segs))>> ELSE <<>>)
             \o WellFormedNames(Tail(segs))

\* Each name once, at its first appearance.
RECURSIVE FirstAppearances(_)
FirstAppearances(names) ==
    IF names = <<>> THEN <<>>
    ELSE LET front == FirstAppearances(SubSeq(names, 1, Len(names) - 1))
             x == names[Len(names)]
         IN IF \E i \in DOMAIN front : front[i] = x
            THEN front ELSE Append(front, x)

\* C14 as stated: once the loop is over, account_list holds exactly the
\* names of the well-formed segments, each name once, in order of first
\* appearance, and its names are the keys of accounts.
C14_AsStated ==
    parts = <<>> =>
        /\ account_list = FirstAppearances(WellFormedNames(Segments))
        /\ {account_list[i] : i \in DOMAIN account_list} = DOMAIN accounts

\* ----------------------------------------------------------------- C15
\* A step of the inner loop: a message has just been visited.
ReadStep == digest' = Building /\ msg' # NoMessage

\* C15 as stated: a visited message gets a line exactly when it is newer
\* than now minus 24 hours and is not the account's own.
C15_AsStated ==
    [][ReadStep =>
          recent' = IF /\ msg'.timestamp > Now - Window
                       /\ msg'.user_id # SelfId
                    THEN Append(recent, Line(msg')) ELSE recent]_vars

\* C15 amended: a visited message gets a line exactly when it is not
\* older than now minus 24 hours (one exactly 24h old is kept) and is not
\* the account's own; a built entry reads "No recent replies" exactly when
\* no line was collected, and otherwise shows collected lines only.
C15_WithinWindow ==
    /\ [][ReadStep =>
             recent' = IF /\ msg'.timestamp >= Now - Window
                          /\ msg'.user_id # SelfId
                       THEN Append(recent, Line(msg')) ELSE recent]_vars
    /\ [](/\ \A i \in DOMAIN recent :
                /\ recent[i].of >= Now - Window
                /\ recent[i].sender # SelfId
          /\ digest.kind = "No recent replies" => recent = <<>>
          /\ digest.kind = "lines" =>
                /\ recent # <<>>
                /\ \A i \in DOMAIN digest.lines :
                       \E j \in DOMAIN recent : digest.lines[i] = recent[j])

\* An entry has been built that shows the message 23h 59m old, the last
\* message visited being the account's own.
C15_Witness ==
    /\ digest.kind = "lines"
    /\ \E i \in DOMAIN digest.lines :
           digest.lines[i].of = Now - Window + 60
    /\ msg.user_id = SelfId

\* ----------------------------------------------------------------- C16
\* The collected lines that the built entry does not show.
Dropped == SubSeq(recent, 1, Len(recent) - Len(digest.lines))

\* C16 as stated: a built entry shows at most 8 lines, in non-decreasing
\* order of their messages' timestamps across all threads, and the lines
\* it drops are no newer than the ones it shows.
C16_AsStated ==
    digest.kind = "lines" =>
        /\ Len(digest.lines) <= DigestCap
        /\ \A i \in DOMAIN digest.lines, j \in DOMAIN digest.lines :
               i < j => digest.lines[i].of <= digest.lines[j].of
        /\ \A i \in DOMAIN Dropped, j \in DOMAIN digest.lines :
               Dropped[i].of <= digest.lines[j].of

\* ----------------------------------------------------------------- C17
\* A step in which the operator's digit-only text is not 6 characters
\* long and arrives while a two-factor challenge is pending.
ShortNumberWhilePending ==
    /\ waiting_for_2fa # None
    /\ NumericReply
    /\ Len(last'.text) # TwoFACodeLen

\* The text is a valid 1-based index and the operator has a PendingAction.
SelectsPending(text) ==
    /\ Operator \in DOMAIN pending_action
    /\ ~IntRaises(text)
    /\ ValidChoice(int(text))

\* The selection got a handle and carried out the stored action on the
\* account at the index, removing it.
ResolvedOn(text) ==
    /\ Carries(NoteCallsOf(last'.calls), pending_action[Operator],
               account_list[int(text)])
    /\ Operator \notin DOMAIN pending_action'

\* C17 as stated: such a reply leaves the marker unchanged and, given a
\* PendingAction and a valid index, resolves the action on that account.
\* (Stated of the runs from which no exception escaped; the action counts
\* as resolved only when a handle was obtained.)
C17_AsStated ==
    [][(ShortNumberWhilePending /\ last'.raised = "none") =>
          /\ waiting_for_2fa' = waiting_for_2fa
          /\ (SelectsPending(last'.text)
              /\ client'[account_list[int(last'.text)]]) =>
                 ResolvedOn(last'.text)]_vars

\* C17 amended: such a reply is not taken by the 2FA branch, which sends
\* nothing, makes no login and does not clear the marker.  Given a
\* PendingAction and a valid index the selection runs as without a
\* challenge: with a handle the action is resolved on that account; the
\* marker changes only when the selection's own login is answered by a
\* new challenge, and then names the selected account.  Any other such
\* reply changes nothing.
C17_NotTakenAsCode ==
    [][ShortNumberWhilePending =>
          /\ Kinds(last'.replies) \cap TwoFAKinds = {}
          /\ CodeLogins(last'.calls) = {}
          /\ waiting_for_2fa' # None
          /\ IF SelectsPending(last'.text)
             THEN /\ client'[account_list[int(last'.text)]] =>
                        ResolvedOn(last'.text)
                  /\ waiting_for_2fa' # waiting_for_2fa =>
                        /\ waiting_for_2fa' = account_list[int(last'.text)]
                        /\ LoginRefused(last'.calls, waiting_for_2fa')
             ELSE /\ UNCHANGED <<client, session_file, waiting_for_2fa,
                                 pending_action>>
                  /\ last'.calls = <<>> /\ last'.replies = <<>>]_vars

\* A one-digit reply has just resolved the pending note on the chosen
\* account while the challenge is still pending.
C17_Witness ==
    /\ last.handler = "message" /\ last.user = Operator
    /\ Len(last.text) = 1 /\ isdigit(last.text)
    /\ waiting_for_2fa # None
    /\ "create_note" \in Ops(last.calls)
    /\ LoginRefused(last.calls, waiting_for_2fa) = FALSE
    /\ Operator \notin DOMAIN pending_action
    /\ resolved

\* ----------------------------------------------------------------- C18
\* A step in which the operator selects a valid index while a
\* PendingAction is stored and the reply is not taken as a 2FA code.
SelectionStep ==
    /\ NumericReply
    /\ Operator \in DOMAIN pending_action
    /\ Selects(last'.text)

\* C18: a selection that gets no handle (login failure or two-factor
\* challenge) issues no note call and keeps the PendingAction, which is
\* still the action of the latest deferring command, type, text and
\* audience; a two-factor completion keeps it too; and a selection of an
\* index whose account has a cached handle (as after a successful
\* completion) carries out that action on that account and removes it, so
\* that it runs once.
C18_SurvivesFailedAcquire ==
    /\ [][(SelectionStep /\ "login_failed" \in Kinds(last'.replies)) =>
              /\ pending_action' = pending_action
              /\ pending_action'[Operator] = lastDeferred'
              /\ NoNoteCall(last'.calls)
              /\ ~client'[account_list[int(last'.text)]]]_vars
    /\ [][TookTwoFA(last'.replies) =>
              /\ pending_action' = pending_action
              /\ lastDeferred' = lastDeferred]_vars
    /\ [][(SelectionStep /\ client[account_list[int(last'.text)]]) =>
              /\ Carries(NoteCallsOf(last'.calls), lastDeferred,
                         account_list[int(last'.text)])
              /\ Operator \notin DOMAIN pending_action'
              /\ resolved']_vars

\* A selection has just been answered by a two-factor challenge on the
\* selected account: no handle, and the stored note is still there.
C18_Witness ==
    /\ last.handler = "message" /\ last.user = Operator
    /\ Kinds(last.replies) = {"login_failed"}
    /\ ~IntRaises(last.text) /\ ValidChoice(int(last.text))
    /\ waiting_for_2fa = account_list[int(last.text)]
    /\ LoginRefused(last.calls, waiting_for_2fa)
    /\ Operator \in DOMAIN pending_action
    /\ pending_action[Operator] = lastDeferred
    /\ lastDeferred.type = "note"

\* ----------------------------------------------------------------- C19
\* A step in which the operator's 6-digit code arrives while a two-factor
\* challenge is pending: the two-factor completion.
CompletionStep ==
    /\ waiting_for_2fa # None
    /\ NumericReply
    /\ IsTwoFACode(last'.text)

\* C19: a two-factor completion issues no note call and calls the remote
\* service for the pending account only; it leaves pending_action and
\* every other account's cached handle and session file unchanged, and
\* changes the pending account's cached handle or session file only when
\* the login with the code and dump_settings succeeded.
C19_OnlyPendingAccount ==
    [][CompletionStep =>
          /\ NoNoteCall(last'.calls)
          /\ \A i \in DOMAIN last'.calls :
                 last'.calls[i].account = waiting_for_2fa
          /\ pending_action' = pending_action
          /\ \A a \in Accounts \ {waiting_for_2fa} :
                 /\ client'[a] = client[a]
                 /\ session_file'[a] = session_file[a]
          /\ (\/ client'[waiting_for_2fa] # client[waiting_for_2fa]
              \/ session_file'[waiting_for_2fa]
                    # session_file[waiting_for_2fa]) =>
                 /\ "2fa_success" \in Kinds(last'.replies)
                 /\ LoginThenDump(last'.calls, waiting_for_2fa)]_vars

\* A completion has just succeeded on one account while a PendingAction
\* is stored and another account has a cached handle and no challenge.
C19_Witness ==
    /\ last.handler = "message" /\ last.user = Operator
    /\ "2fa_success" \in Kinds(last.replies)
    /\ Operator \in DOMAIN pending_action
    /\ \E a \in Accounts, b \in Accounts :
           /\ a # b
           /\ CodeLogins(CallsOn(last.calls, a)) # {}
           /\ client[a] /\ client[b]

\* ----------------------------------------------------------------- C20
\* C20 as stated: the account the marker names has no cached handle.
C20_AsStated ==
    waiting_for_2fa # None => ~client[waiting_for_2fa]

\* C20 amended: the marker is set only on an account that has no cached
\* handle, before and after the run that sets it; it is cleared only by
\* a two-factor completion (a later challenge moves it to another
\* account), not by a later acquire that caches the account's handle,
\* so it can name an account whose handle is cached.
C20_NoHandleWhenSet ==
    /\ [][waiting_for_2fa' \notin {waiting_for_2fa, None} =>
              /\ ~client[waiting_for_2fa']
              /\ ~client'[waiting_for_2fa']]_vars
    /\ [][(waiting_for_2fa # None /\ waiting_for_2fa' # waiting_for_2fa) =>
              \/ TookTwoFA(last'.replies) /\ waiting_for_2fa' = None
              \/ LoginRefused(last'.calls, waiting_for_2fa')]_vars
    /\ [][(/\ waiting_for_2fa # None
           /\ ~client[waiting_for_2fa] /\ client'[waiting_for_2fa]
           /\ ~TookTwoFA(last'.replies)) =>
              waiting_for_2fa' # None]_vars

\* A /current_note run has just been answered by a challenge on an
\* account, which the marker now names and which has no cached handle.
C20_Witness ==
    /\ last.handler = "current_note"
    /\ waiting_for_2fa \in Accounts
    /\ LoginRefused(last.calls, waiting_for_2fa)
    /\ ~client[waiting_for_2fa]
    /\ \E i \in DOMAIN last.replies[1].body :
           /\ last.replies[1].body[i].account = waiting_for_2fa
           /\ last.replies[1].body[i].status = "Login failed"

====
